---- MODULE Spec2Model ----
(***************************************************************************)
(* Model of mixer/blender_client/data.py: the generic datablock            *)
(* synchronisation layer of Mixer.  Four outbound translators, the         *)
(* send_data functions, turn changesets into commands on the client's      *)
(* queue, and four inbound appliers, the build_data functions, decode one  *)
(* payload each and apply it to the bpy_data_proxy store.                   *)
(*                                                                         *)
(* Strings are sequences of code points, byte buffers are sequences of     *)
(* byte values (0..255).                                                    *)
(***************************************************************************)
EXTENDS Integers, Sequences, FiniteSets, TLC

VARIABLES gate, queue, datablocks, dirty, last, net

vars == <<gate, queue, datablocks, dirty, last, net>>

(***************************************************************************)
(* Bounds of the model.                                                     *)
(***************************************************************************)
\* longest changeset handed to a send_data call
MaxLen == 3
\* a call is made only while at most this many commands are still pending
MaxBacklog == 0
\* records the sending peer hands to its translators in the two-peer system
MaxRecords == 3

(***************************************************************************)
(* Python helpers.                                                          *)
(***************************************************************************)
Min(a, b) == IF a < b THEN a ELSE b
Max(a, b) == IF a > b THEN a ELSE b

\* s[lo:hi] with Python's treatment of negative and out-of-range indices
PyIndex(s, i) == IF i < 0 THEN Max(Len(s) + i, 0) ELSE Min(i, Len(s))
PySlice(s, lo, hi) == SubSeq(s, PyIndex(s, lo) + 1, PyIndex(s, hi))

\* str.encode(): UTF-8 of a sequence of code points below 2048
RECURSIVE Utf8Encode(_)
Utf8Encode(s) ==
    IF s = <<>> THEN <<>>
    ELSE LET c == Head(s) IN
         (IF c < 128 THEN <<c>> ELSE <<192 + (c \div 64), 128 + (c % 64)>>)
            \o Utf8Encode(Tail(s))

\* bytes.decode(): [ok, value]; ok = FALSE stands for UnicodeDecodeError
RECURSIVE Utf8Decode(_)
Utf8Decode(b) ==
    IF b = <<>> THEN [ok |-> TRUE, value |-> <<>>]
    ELSE LET c == Head(b) IN
         IF c < 128
         THEN LET r == Utf8Decode(Tail(b)) IN
              [ok |-> r.ok, value |-> <<c>> \o r.value]
         ELSE IF c >= 194 /\ c < 224 /\ Len(b) >= 2 /\ b[2] >= 128 /\ b[2] < 192
         THEN LET r == Utf8Decode(Tail(Tail(b))) IN
              [ok |-> r.ok, value |-> <<(c - 192) * 64 + (b[2] - 128)>> \o r.value]
         ELSE [ok |-> FALSE, value |-> <<>>]

(***************************************************************************)
(* mixer.broadcaster.common: the wire framer and the command envelope.      *)
(***************************************************************************)
\* int.to_bytes(4, "little")
int_to_bytes(n) ==
    <<n % 256, (n \div 256) % 256, (n \div 65536) % 256, (n \div 16777216) % 256>>

\* int.from_bytes(b, "little"); the empty buffer gives 0
RECURSIVE bytes_to_int(_)
bytes_to_int(b) ==
    IF b = <<>> THEN 0 ELSE Head(b) + 256 * bytes_to_int(Tail(b))

encode_string(value) ==
    LET encoded_value == Utf8Encode(value) IN
    int_to_bytes(Len(encoded_value)) \o encoded_value

\* [ok, value, index]: the decoded string and the offset after it
decode_string(data, index) ==
    LET string_length == bytes_to_int(PySlice(data, index, index + 4))
        start == index + 4
        end == start + string_length
        d == Utf8Decode(PySlice(data, start, end))
    IN [ok |-> d.ok, value |-> d.value, index |-> end]

BLENDER_DATA_CREATE == "BLENDER_DATA_CREATE"
BLENDER_DATA_UPDATE == "BLENDER_DATA_UPDATE"
BLENDER_DATA_REMOVE == "BLENDER_DATA_REMOVE"
BLENDER_DATA_RENAME == "BLENDER_DATA_RENAME"

Command(command_type, data, command_id) ==
    [type |-> command_type, data |-> data, id |-> command_id]

(***************************************************************************)
(* The records of a changeset.                                              *)
(***************************************************************************)
U1 == <<117, 49>>
U2 == <<117, 50>>
UUIDs == {U1, U2}
NameA == <<97>>
NameB == <<98>>
DataX == <<120>>
DebugA == <<111, 98, 106, 32, 65>>
DebugE == <<233>>

DatablockProxy == "DatablockProxy"
Delta == "Delta"

\* ok = FALSE: a record the codec cannot serialise
Record(cls, uuid, name, data, ok) ==
    [cls |-> cls, uuid |-> uuid, name |-> name, data |-> data, ok |-> ok]

Proxies ==
    { Record(DatablockProxy, u, NameA, <<>>, TRUE) : u \in UUIDs }
        \cup { Record(DatablockProxy, U1, NameA, <<>>, FALSE) }
Deltas ==
    { Record(Delta, u, <<>>, DataX, TRUE) : u \in UUIDs }
        \cup { Record(Delta, U2, <<>>, DataX, FALSE) }
Removals == { <<U1, DebugA>>, <<U2, DebugE>> }
Renames == { <<U1, NameB, DebugA>>, <<U2, NameB, DebugE>> }

SeqsUpTo(S, n) == UNION { [1..k -> S] : k \in 0..n }

(***************************************************************************)
(* mixer.blender_data.json_codec.Codec                                      *)
(***************************************************************************)
\* the pieces of s between occurrences of sep
RECURSIVE Split(_, _)
Split(s, sep) ==
    IF s = <<>> THEN << <<>> >>
    ELSE LET rest == Split(Tail(s), sep) IN
         IF Head(s) = sep THEN << <<>> >> \o rest
         ELSE << <<Head(s)>> \o Head(rest) >> \o Tail(rest)

\* [ok, value]: the text of a record; ok = FALSE stands for an encode exception
Codec_encode(r) ==
    IF ~r.ok THEN [ok |-> FALSE, value |-> <<>>]
    ELSE [ok |-> TRUE,
          value |-> <<123, IF r.cls = DatablockProxy THEN 80 ELSE 68, 58>>
                        \o r.uuid \o <<58>> \o r.name \o <<58>> \o r.data \o <<125>>]

\* [ok, value]: the record of a text; ok = FALSE stands for a decode exception
Codec_decode(s) ==
    LET n == Len(s)
        fields == Split(SubSeq(s, 2, n - 1), 58)
        bad == [ok |-> FALSE, value |-> Record("", <<>>, <<>>, <<>>, FALSE)]
    IN IF n < 2 \/ s[1] # 123 \/ s[n] # 125 THEN bad
       ELSE IF Len(fields) # 4 \/ fields[1] \notin {<<80>>, <<68>>} THEN bad
       ELSE [ok |-> TRUE,
             value |-> Record(IF fields[1] = <<80>> THEN DatablockProxy ELSE Delta,
                              fields[2], fields[3], fields[4], TRUE)]

(***************************************************************************)
(* share_data.bpy_data_proxy: the store.  datablocks maps the uuid of each  *)
(* existing datablock to its name and data.  Each operation gives           *)
(* [ok, datablocks, renames]; ok = FALSE stands for an exception, which     *)
(* leaves the store as it was.                                              *)
(***************************************************************************)
ConflictSuffix == <<46, 48, 48, 49>>
ConflictDebug == <<67>>

StoreRaises(db) == [ok |-> FALSE, datablocks |-> db, renames |-> <<>>]
StoreReturns(db, renames) == [ok |-> TRUE, datablocks |-> db, renames |-> renames]

\* db with uuid mapped to value
Put(db, uuid, value) ==
    [u \in DOMAIN db \cup {uuid} |-> IF u = uuid THEN value ELSE db[u]]

\* a proxy whose name is taken gets a corrected name, reported as a rename
create_datablock(db, id_proxy) ==
    IF id_proxy.cls # DatablockProxy \/ id_proxy.uuid \in DOMAIN db
    THEN StoreRaises(db)
    ELSE LET clash == \E u \in DOMAIN db : db[u].name = id_proxy.name
             name == IF clash THEN id_proxy.name \o ConflictSuffix ELSE id_proxy.name
         IN StoreReturns(Put(db, id_proxy.uuid, [name |-> name, data |-> id_proxy.data]),
                         IF clash THEN << <<id_proxy.uuid, name, ConflictDebug>> >>
                         ELSE <<>>)

update_datablock(db, delta) ==
    IF delta.cls # Delta \/ delta.uuid \notin DOMAIN db
    THEN StoreRaises(db)
    ELSE StoreReturns(Put(db, delta.uuid, [db[delta.uuid] EXCEPT !.data = delta.data]),
                      <<>>)

remove_datablock(db, uuid) ==
    IF uuid \notin DOMAIN db THEN StoreRaises(db)
    ELSE StoreReturns([u \in DOMAIN db \ {uuid} |-> db[u]], <<>>)

rename_datablock(db, uuid, new_name) ==
    IF uuid \notin DOMAIN db THEN StoreRaises(db)
    ELSE StoreReturns(Put(db, uuid, [db[uuid] EXCEPT !.name = new_name]), <<>>)

StoreCall(op, args) == [op |-> op, args |-> args]

(***************************************************************************)
(* What one call of this layer did.  ctx is the state the call starts in:   *)
(* [gate, queue, datablocks, dirty].  A result gives the state it leaves    *)
(* and what it did on the way: the commands it added (sent), the store      *)
(* operations it called (calls), how often it called set_dirty, what it     *)
(* logged, and whether it returned or an exception left it (exc).           *)
(***************************************************************************)
Returned == "returned"
Raised == "raised"

Result(ctx, outcome, exc, db, sent, calls, dirtyCalls, log) ==
    [queue |-> ctx.queue \o sent,
     datablocks |-> db,
     dirty |-> ctx.dirty \/ dirtyCalls > 0,
     outcome |-> outcome, exc |-> exc,
     sent |-> sent, calls |-> calls, dirtyCalls |-> dirtyCalls, log |-> log]

\* the early return of a disabled gate
NoOp(ctx) == Result(ctx, Returned, "", ctx.datablocks, <<>>, <<>>, 0, <<>>)

use_experimental_sync(ctx) == ctx.gate

Info(fmt, args) == <<"info", fmt, args>>
Error(fmt, args) == <<"error", fmt, args>>
\* the lines of traceback.format_exc(), one logger.error each
Traceback(exc) == Error("traceback", <<exc>>)

\* the part of the buffer logged before and after "..."
LogExcerpt == 200

(***************************************************************************)
(* The outbound translators.  Each loop gives [sent, log] for the records   *)
(* of a changeset, in the order of the for statement.                       *)
(***************************************************************************)
\* creations_loop with the tag of send_data_updates on its commands
RECURSIVE creations_loop_mistagged(_)
creations_loop_mistagged(proxies) ==
    IF proxies = <<>> THEN [sent |-> <<>>, log |-> <<>>]
    ELSE LET proxy == Head(proxies)
             encoded_proxy == Codec_encode(proxy)
             rest == creations_loop_mistagged(Tail(proxies))
         IN IF ~encoded_proxy.ok
            THEN [sent |-> rest.sent,
                  log |-> <<Info("send_data_create", <<proxy>>),
                            Error("send_data_create: encode exception", <<proxy>>),
                            Traceback("EncodeError")>> \o rest.log]
            ELSE [sent |-> <<Command(BLENDER_DATA_UPDATE,
                                     encode_string(encoded_proxy.value), 0)>>
                               \o rest.sent,
                  log |-> <<Info("send_data_create", <<proxy>>)>> \o rest.log]

\* creations_loop with each command put in front of the earlier ones
RECURSIVE creations_loop_reversed(_)
creations_loop_reversed(proxies) ==
    IF proxies = <<>> THEN [sent |-> <<>>, log |-> <<>>]
    ELSE LET proxy == Head(proxies)
             encoded_proxy == Codec_encode(proxy)
             rest == creations_loop_reversed(Tail(proxies))
         IN IF ~encoded_proxy.ok
            THEN [sent |-> rest.sent,
                  log |-> <<Info("send_data_create", <<proxy>>),
                            Error("send_data_create: encode exception", <<proxy>>),
                            Traceback("EncodeError")>> \o rest.log]
            ELSE [sent |-> rest.sent
                               \o <<Command(BLENDER_DATA_CREATE,
                                            encode_string(encoded_proxy.value), 0)>>,
                  log |-> <<Info("send_data_create", <<proxy>>)>> \o rest.log]

RECURSIVE creations_loop(_)
creations_loop(proxies) ==
    IF proxies = <<>> THEN [sent |-> <<>>, log |-> <<>>]
    ELSE LET proxy == Head(proxies)
             encoded_proxy == Codec_encode(proxy)
             rest == creations_loop(Tail(proxies))
         IN IF ~encoded_proxy.ok
            THEN \* except Exception: ... continue
                 [sent |-> rest.sent,
                  log |-> <<Info("send_data_create", <<proxy>>),
                            Error("send_data_create: encode exception", <<proxy>>),
                            Traceback("EncodeError")>> \o rest.log]
            ELSE [sent |-> <<Command(BLENDER_DATA_CREATE,
                                     encode_string(encoded_proxy.value), 0)>>
                               \o rest.sent,
                  log |-> <<Info("send_data_create", <<proxy>>)>> \o rest.log]

send_data_creations(ctx, proxies) ==
    IF ~use_experimental_sync(ctx) THEN NoOp(ctx)
    ELSE LET r == creations_loop(proxies) IN
         Result(ctx, Returned, "", ctx.datablocks, r.sent, <<>>, 0, r.log)

\* updates_loop with the loop left at the first record that fails to encode
RECURSIVE updates_loop_break(_)
updates_loop_break(updates) ==
    IF updates = <<>> THEN [sent |-> <<>>, log |-> <<>>]
    ELSE LET update == Head(updates)
             encoded_update == Codec_encode(update)
             rest == updates_loop_break(Tail(updates))
         IN IF ~encoded_update.ok
            THEN [sent |-> <<>>,
                  log |-> <<Info("send_data_update", <<update>>),
                            Error("send_data_update: encode exception", <<update>>),
                            Traceback("EncodeError")>>]
            ELSE [sent |-> <<Command(BLENDER_DATA_UPDATE,
                                     encode_string(encoded_update.value), 0)>>
                               \o rest.sent,
                  log |-> <<Info("send_data_update", <<update>>)>> \o rest.log]

RECURSIVE updates_loop(_)
updates_loop(updates) ==
    IF updates = <<>> THEN [sent |-> <<>>, log |-> <<>>]
    ELSE LET update == Head(updates)
             encoded_update == Codec_encode(update)
             rest == updates_loop(Tail(updates))
         IN IF ~encoded_update.ok
            THEN \* except Exception: ... continue
                 [sent |-> rest.sent,
                  log |-> <<Info("send_data_update", <<update>>),
                            Error("send_data_update: encode exception", <<update>>),
                            Traceback("EncodeError")>> \o rest.log]
            ELSE [sent |-> <<Command(BLENDER_DATA_UPDATE,
                                     encode_string(encoded_update.value), 0)>>
                               \o rest.sent,
                  log |-> <<Info("send_data_update", <<update>>)>> \o rest.log]

send_data_updates(ctx, updates) ==
    IF ~use_experimental_sync(ctx) THEN NoOp(ctx)
    ELSE LET r == updates_loop(updates) IN
         Result(ctx, Returned, "", ctx.datablocks, r.sent, <<>>, 0, r.log)

\* removals_loop with each command put in front of the earlier ones
RECURSIVE removals_loop_reversed(_)
removals_loop_reversed(removals) ==
    IF removals = <<>> THEN [sent |-> <<>>, log |-> <<>>]
    ELSE LET uuid == Head(removals)[1]
             debug_info == Head(removals)[2]
             buffer == encode_string(uuid) \o encode_string(debug_info)
             rest == removals_loop_reversed(Tail(removals))
         IN [sent |-> rest.sent \o <<Command(BLENDER_DATA_REMOVE, buffer, 0)>>,
             log |-> <<Info("send_removal", <<uuid, debug_info>>)>> \o rest.log]

RECURSIVE removals_loop(_)
removals_loop(removals) ==
    IF removals = <<>> THEN [sent |-> <<>>, log |-> <<>>]
    ELSE LET uuid == Head(removals)[1]
             debug_info == Head(removals)[2]
             buffer == encode_string(uuid) \o encode_string(debug_info)
             rest == removals_loop(Tail(removals))
         IN [sent |-> <<Command(BLENDER_DATA_REMOVE, buffer, 0)>> \o rest.sent,
             log |-> <<Info("send_removal", <<uuid, debug_info>>)>> \o rest.log]

send_data_removals(ctx, removals) ==
    IF ~use_experimental_sync(ctx) THEN NoOp(ctx)
    ELSE LET r == removals_loop(removals) IN
         Result(ctx, Returned, "", ctx.datablocks, r.sent, <<>>, 0, r.log)

\* renames_loop with new_name written before uuid
RECURSIVE renames_loop_swapped(_)
renames_loop_swapped(renames) ==
    IF renames = <<>> THEN [sent |-> <<>>, log |-> <<>>]
    ELSE LET uuid == Head(renames)[1]
             new_name == Head(renames)[2]
             debug_info == Head(renames)[3]
             buffer == encode_string(new_name) \o encode_string(uuid)
                           \o encode_string(debug_info)
             rest == renames_loop_swapped(Tail(renames))
         IN [sent |-> <<Command(BLENDER_DATA_RENAME, buffer, 0)>> \o rest.sent,
             log |-> <<Info("send_rename", <<uuid, debug_info, new_name>>)>>
                        \o rest.log]

\* renames_loop with add_command called twice for each rename
RECURSIVE renames_loop_twice(_)
renames_loop_twice(renames) ==
    IF renames = <<>> THEN [sent |-> <<>>, log |-> <<>>]
    ELSE LET uuid == Head(renames)[1]
             new_name == Head(renames)[2]
             debug_info == Head(renames)[3]
             buffer == encode_string(uuid) \o encode_string(new_name)
                           \o encode_string(debug_info)
             rest == renames_loop_twice(Tail(renames))
         IN [sent |-> <<Command(BLENDER_DATA_RENAME, buffer, 0),
                        Command(BLENDER_DATA_RENAME, buffer, 0)>> \o rest.sent,
             log |-> <<Info("send_rename", <<uuid, debug_info, new_name>>)>>
                        \o rest.log]

RECURSIVE renames_loop(_)
renames_loop(renames) ==
    IF renames = <<>> THEN [sent |-> <<>>, log |-> <<>>]
    ELSE LET uuid == Head(renames)[1]
             new_name == Head(renames)[2]
             debug_info == Head(renames)[3]
             buffer == encode_string(uuid) \o encode_string(new_name)
                           \o encode_string(debug_info)
             rest == renames_loop(Tail(renames))
         IN [sent |-> <<Command(BLENDER_DATA_RENAME, buffer, 0)>> \o rest.sent,
             log |-> <<Info("send_rename", <<uuid, debug_info, new_name>>)>>
                        \o rest.log]

send_data_renames(ctx, renames) ==
    IF ~use_experimental_sync(ctx) THEN NoOp(ctx)
    ELSE LET r == renames_loop(renames) IN
         Result(ctx, Returned, "", ctx.datablocks, r.sent, <<>>, 0, r.log)

(***************************************************************************)
(* The inbound appliers.                                                    *)
(***************************************************************************)
\* what the except block of build_data_create and build_data_update logs.
\* bound says whether the local the third message formats (id_proxy, delta)
\* was assigned: the f-string reads it, and reading a local that was never
\* assigned raises there, before the excerpts are logged.
except_log(what, bound, record, buffer) ==
    <<Error(what, <<>>), Traceback("Exception")>>
        \o (IF ~bound THEN <<>>
            ELSE <<Error("During processing of buffer for", <<record>>),
                   Error("head", <<PySlice(buffer, 0, LogExcerpt)>>),
                   Error("...", <<>>),
                   Error("tail", <<PySlice(buffer, 0 - LogExcerpt, 0)>>),
                   Error("ignored", <<>>)>>)

\* except_block with the exception raised again after logging
except_block_reraise(ctx, what, bound, record, buffer, calls, dirtyCalls, log) ==
    Result(ctx, Raised, IF bound THEN "Exception" ELSE "UnboundLocalError",
           ctx.datablocks, <<>>, calls, dirtyCalls,
           log \o except_log(what, bound, record, buffer))

\* the except block of build_data_create and build_data_update, entered with
\* the store calls, set_dirty calls and log of the try block so far
except_block(ctx, what, bound, record, buffer, calls, dirtyCalls, log) ==
    Result(ctx, IF bound THEN Returned ELSE Raised,
           IF bound THEN "" ELSE "UnboundLocalError",
           ctx.datablocks, <<>>, calls, dirtyCalls,
           log \o except_log(what, bound, record, buffer))

\* forward_renames with the rename changeset dropped
forward_renames_dropped(ctx, rename_changeset) == NoOp(ctx)

\* if rename_changeset: send_data_renames(rename_changeset)
forward_renames(ctx, rename_changeset) ==
    IF rename_changeset # <<>> THEN send_data_renames(ctx, rename_changeset)
    ELSE NoOp(ctx)

\* build_data_create from its try statement on; buffer is the framed text
apply_create(ctx, buffer) ==
    LET decoded == Codec_decode(buffer)
        id_proxy == decoded.value
        what == "Exception during build_data_create"
    IN IF ~decoded.ok
       THEN except_block(ctx, what, FALSE, id_proxy, buffer, <<>>, 0, <<>>)
       ELSE
       LET info == <<Info("build_data_create", <<id_proxy>>)>>
           created == create_datablock(ctx.datablocks, id_proxy)
           calls == <<StoreCall("create_datablock", <<id_proxy>>)>>
       IN IF ~created.ok
          THEN except_block(ctx, what, TRUE, id_proxy, buffer, calls, 1, info)
          ELSE
          LET after == [ctx EXCEPT !.datablocks = created.datablocks, !.dirty = TRUE]
              renamed == forward_renames(after, created.renames)
          IN Result(ctx, renamed.outcome, renamed.exc, created.datablocks,
                    renamed.sent, calls, 1, info \o renamed.log)

\* build_data_create with the payload handed to the codec as it came
build_data_create_unframed(ctx, buffer) ==
    IF ~use_experimental_sync(ctx) THEN NoOp(ctx)
    ELSE apply_create(ctx, buffer)

build_data_create(ctx, buffer) ==
    IF ~use_experimental_sync(ctx) THEN NoOp(ctx)
    ELSE LET framed == decode_string(buffer, 0) IN
         IF ~framed.ok
         THEN \* line 65 is outside the try statement
              Result(ctx, Raised, "UnicodeDecodeError", ctx.datablocks,
                     <<>>, <<>>, 0, <<>>)
         ELSE apply_create(ctx, framed.value)

\* apply_update with set_dirty called after update_datablock
apply_update_dirty_late(ctx, buffer) ==
    LET decoded == Codec_decode(buffer)
        delta == decoded.value
        what == "Exception during build_data_update"
    IN IF ~decoded.ok
       THEN except_block(ctx, what, FALSE, delta, buffer, <<>>, 0, <<>>)
       ELSE
       LET info == <<Info("build_data_update", <<delta>>)>>
           updated == update_datablock(ctx.datablocks, delta)
           calls == <<StoreCall("update_datablock", <<delta>>)>>
       IN IF ~updated.ok
          THEN except_block(ctx, what, TRUE, delta, buffer, calls, 0, info)
          ELSE Result(ctx, Returned, "", updated.datablocks, <<>>, calls, 1, info)

\* build_data_update from its try statement on; buffer is the framed text
apply_update(ctx, buffer) ==
    LET decoded == Codec_decode(buffer)
        delta == decoded.value
        what == "Exception during build_data_update"
    IN IF ~decoded.ok
       THEN except_block(ctx, what, FALSE, delta, buffer, <<>>, 0, <<>>)
       ELSE
       LET info == <<Info("build_data_update", <<delta>>)>>
           updated == update_datablock(ctx.datablocks, delta)
           calls == <<StoreCall("update_datablock", <<delta>>)>>
       IN IF ~updated.ok
          THEN except_block(ctx, what, TRUE, delta, buffer, calls, 1, info)
          ELSE Result(ctx, Returned, "", updated.datablocks, <<>>, calls, 1, info)

build_data_update(ctx, buffer) ==
    IF ~use_experimental_sync(ctx) THEN NoOp(ctx)
    ELSE LET framed == decode_string(buffer, 0) IN
         IF ~framed.ok
         THEN \* line 93 is outside the try statement
              Result(ctx, Raised, "UnicodeDecodeError", ctx.datablocks,
                     <<>>, <<>>, 0, <<>>)
         ELSE apply_update(ctx, framed.value)

\* after_store with set_dirty left out
after_store_nodirty(ctx, r, calls, log) ==
    IF ~r.ok
    THEN Result(ctx, Raised, "StoreError", ctx.datablocks, <<>>, calls, 0, log)
    ELSE Result(ctx, Returned, "", r.datablocks, <<>>, calls, 0, log)

\* after_store with the store operation in a try statement like that of
\* build_data_create: set_dirty first, the exception logged and dropped
after_store_contained(ctx, r, calls, log) ==
    IF ~r.ok
    THEN Result(ctx, Returned, "", ctx.datablocks, <<>>, calls, 1, log)
    ELSE Result(ctx, Returned, "", r.datablocks, <<>>, calls, 1, log)

\* the end of build_data_remove and build_data_rename: the store operation,
\* with result r, is in no try statement, and set_dirty follows it
after_store(ctx, r, calls, log) ==
    IF ~r.ok
    THEN Result(ctx, Raised, "StoreError", ctx.datablocks, <<>>, calls, 0, log)
    ELSE Result(ctx, Returned, "", r.datablocks, <<>>, calls, 1, log)

\* apply_remove with the second string read from the start of the buffer again
apply_remove_reread(ctx, buffer) ==
    LET first == decode_string(buffer, 0)
        second == decode_string(buffer, 0)
        uuid == first.value
        debug_info == second.value
    IN IF ~first.ok \/ ~second.ok
       THEN Result(ctx, Raised, "UnicodeDecodeError", ctx.datablocks,
                   <<>>, <<>>, 0, <<>>)
       ELSE after_store(ctx, remove_datablock(ctx.datablocks, uuid),
                        <<StoreCall("remove_datablock", <<uuid>>)>>,
                        <<Info("build_data_remove", <<uuid, debug_info>>)>>)

\* build_data_remove after the gate
apply_remove(ctx, buffer) ==
    LET first == decode_string(buffer, 0)
        second == decode_string(buffer, first.index)
        uuid == first.value
        debug_info == second.value
    IN IF ~first.ok \/ ~second.ok
       THEN Result(ctx, Raised, "UnicodeDecodeError", ctx.datablocks,
                   <<>>, <<>>, 0, <<>>)
       ELSE after_store(ctx, remove_datablock(ctx.datablocks, uuid),
                        <<StoreCall("remove_datablock", <<uuid>>)>>,
                        <<Info("build_data_remove", <<uuid, debug_info>>)>>)

build_data_remove(ctx, buffer) ==
    IF ~use_experimental_sync(ctx) THEN NoOp(ctx)
    ELSE apply_remove(ctx, buffer)

\* apply_rename with the applied rename sent on to the peers again
apply_rename_echo(ctx, buffer) ==
    LET first == decode_string(buffer, 0)
        second == decode_string(buffer, first.index)
        third == decode_string(buffer, second.index)
        uuid == first.value
        new_name == second.value
        debug_info == third.value
    IN IF ~first.ok \/ ~second.ok \/ ~third.ok
       THEN Result(ctx, Raised, "UnicodeDecodeError", ctx.datablocks,
                   <<>>, <<>>, 0, <<>>)
       ELSE LET renamed == rename_datablock(ctx.datablocks, uuid, new_name) IN
            IF ~renamed.ok
            THEN Result(ctx, Raised, "StoreError", ctx.datablocks, <<>>,
                        <<StoreCall("rename_datablock", <<uuid, new_name>>)>>, 0, <<>>)
            ELSE Result(ctx, Returned, "", renamed.datablocks,
                        send_data_renames(ctx, << <<uuid, new_name, debug_info>> >>).sent,
                        <<StoreCall("rename_datablock", <<uuid, new_name>>)>>, 1, <<>>)

\* build_data_rename after the gate
apply_rename(ctx, buffer) ==
    LET first == decode_string(buffer, 0)
        second == decode_string(buffer, first.index)
        third == decode_string(buffer, second.index)
        uuid == first.value
        new_name == second.value
        debug_info == third.value
    IN IF ~first.ok \/ ~second.ok \/ ~third.ok
       THEN Result(ctx, Raised, "UnicodeDecodeError", ctx.datablocks,
                   <<>>, <<>>, 0, <<>>)
       ELSE after_store(ctx, rename_datablock(ctx.datablocks, uuid, new_name),
                        <<StoreCall("rename_datablock", <<uuid, new_name>>)>>,
                        <<Info("build_data_rename", <<uuid, debug_info, new_name>>)>>)

\* build_data_rename without the check of the gate
build_data_rename_ungated(ctx, buffer) == apply_rename(ctx, buffer)

build_data_rename(ctx, buffer) ==
    IF ~use_experimental_sync(ctx) THEN NoOp(ctx)
    ELSE apply_rename(ctx, buffer)

(***************************************************************************)
(* The payloads the transport hands to the appliers: those a peer running   *)
(* the translators above puts on the wire, and malformed ones.              *)
(***************************************************************************)
CreatePayloads == { encode_string(Codec_encode(p).value) : p \in {q \in Proxies : q.ok} }
UpdatePayloads == { encode_string(Codec_encode(d).value) : d \in {e \in Deltas : e.ok} }
RemovePayloads == { encode_string(r[1]) \o encode_string(r[2]) : r \in Removals }
RenamePayloads ==
    { encode_string(r[1]) \o encode_string(r[2]) \o encode_string(r[3]) : r \in Renames }

\* a REMOVE payload cut off inside the last character of its debug label
Truncated ==
    LET whole == encode_string(U2) \o encode_string(DebugE) IN
    SubSeq(whole, 1, Len(whole) - 1)
\* framed text that is no record of the codec
Garbage == encode_string(<<63, 63>>)
\* a framed byte that is not UTF-8
NotUtf8 == <<1, 0, 0, 0, 255>>

MalformedPayloads == { <<>>, Garbage, NotUtf8, Truncated }

Payloads ==
    CreatePayloads \cup UpdatePayloads \cup RemovePayloads \cup RenamePayloads
        \cup MalformedPayloads

(***************************************************************************)
(* The state machine.  gate is share_data.use_experimental_sync(), queue    *)
(* the commands share_data.client holds for the transport, datablocks the   *)
(* store, dirty the flag share_data.set_dirty() raises.  last describes the *)
(* call in progress, from the state it started in (pre) to what it did; it  *)
(* is NoCall between calls.  net is the two-peer system of the second       *)
(* specification below, and does not change in this one.                    *)
(***************************************************************************)
\* two peers with empty queues; the local peer holds the datablocks it sends
NetStart(remote) ==
    [out |-> <<>>, back |-> <<>>,
     store |-> [local |-> (U1 :> [name |-> NameA, data |-> <<>>])
                              @@ (U2 :> [name |-> NameB, data |-> <<>>]),
                remote |-> remote],
     dirty |-> [local |-> FALSE, remote |-> FALSE],
     budget |-> MaxRecords, sentlog |-> <<>>, applied |-> <<>>]

Ctx == [gate |-> gate, queue |-> queue, datablocks |-> datablocks, dirty |-> dirty]

NoCall ==
    [op |-> "none", changeset |-> <<>>, buffer |-> <<>>,
     pre |-> [gate |-> FALSE, queue |-> <<>>, datablocks |-> <<>>, dirty |-> FALSE],
     outcome |-> Returned, exc |-> "", sent |-> <<>>, calls |-> <<>>,
     dirtyCalls |-> 0, log |-> <<>>]

Idle == last.op = "none"

\* the layer is single-threaded: a call starts when no other is in progress
CanCall == Idle /\ Len(queue) <= MaxBacklog

Do(op, changeset, buffer, r) ==
    /\ queue' = r.queue
    /\ datablocks' = r.datablocks
    /\ dirty' = r.dirty
    /\ gate' = gate
    /\ net' = net
    /\ last' = [op |-> op, changeset |-> changeset, buffer |-> buffer, pre |-> Ctx,
                outcome |-> r.outcome, exc |-> r.exc, sent |-> r.sent,
                calls |-> r.calls, dirtyCalls |-> r.dirtyCalls, log |-> r.log]

Init ==
    /\ gate \in BOOLEAN
    /\ queue = <<>>
    /\ datablocks = <<>>
    /\ dirty = FALSE
    /\ last = NoCall
    /\ net = NetStart(<<>>)

SendDataCreations ==
    /\ CanCall
    /\ \E proxies \in SeqsUpTo(Proxies, MaxLen) :
           Do("send_data_creations", proxies, <<>>, send_data_creations(Ctx, proxies))

SendDataUpdates ==
    /\ CanCall
    /\ \E updates \in SeqsUpTo(Deltas, MaxLen) :
           Do("send_data_updates", updates, <<>>, send_data_updates(Ctx, updates))

SendDataRemovals ==
    /\ CanCall
    /\ \E removals \in SeqsUpTo(Removals, MaxLen) :
           Do("send_data_removals", removals, <<>>, send_data_removals(Ctx, removals))

SendDataRenames ==
    /\ CanCall
    /\ \E renames \in SeqsUpTo(Renames, MaxLen) :
           Do("send_data_renames", renames, <<>>, send_data_renames(Ctx, renames))

BuildDataCreate ==
    /\ CanCall
    /\ \E buffer \in Payloads :
           Do("build_data_create", <<>>, buffer, build_data_create(Ctx, buffer))

BuildDataUpdate ==
    /\ CanCall
    /\ \E buffer \in Payloads :
           Do("build_data_update", <<>>, buffer, build_data_update(Ctx, buffer))

BuildDataRemove ==
    /\ CanCall
    /\ \E buffer \in Payloads :
           Do("build_data_remove", <<>>, buffer, build_data_remove(Ctx, buffer))

BuildDataRename ==
    /\ CanCall
    /\ \E buffer \in Payloads :
           Do("build_data_rename", <<>>, buffer, build_data_rename(Ctx, buffer))

\* the call is over: it returned, or its exception reached the caller
Return ==
    /\ ~Idle
    /\ last' = NoCall
    /\ UNCHANGED <<gate, queue, datablocks, dirty, net>>

\* the transport takes the pending commands
Flush ==
    /\ Idle
    /\ queue # <<>>
    /\ queue' = <<>>
    /\ UNCHANGED <<gate, datablocks, dirty, last, net>>

\* the feature switch is toggled elsewhere
SetGate ==
    /\ Idle
    /\ gate' = ~gate
    /\ UNCHANGED <<queue, datablocks, dirty, last, net>>

\* the consumer of the dirty flag resets it
ClearDirty ==
    /\ Idle
    /\ dirty
    /\ dirty' = FALSE
    /\ UNCHANGED <<gate, queue, datablocks, last, net>>

Next ==
    \/ SendDataCreations
    \/ SendDataUpdates
    \/ SendDataRemovals
    \/ SendDataRenames
    \/ BuildDataCreate
    \/ BuildDataUpdate
    \/ BuildDataRemove
    \/ BuildDataRename
    \/ Return
    \/ Flush
    \/ SetGate
    \/ ClearDirty

Spec == Init /\ [][Next]_vars

(***************************************************************************)
(* Two peers.  The local peer hands changesets to its translators, which    *)
(* put commands on net.out; the transport delivers them in order, each      *)
(* once, to the appliers of the remote peer, whose own commands (the        *)
(* renames of name collisions) travel back on net.back to the appliers of   *)
(* the local peer.  The gate is enabled on both peers.  net.sentlog lists   *)
(* the records the local peer sent and net.applied the store operations of  *)
(* the remote peer, both in order; of the store operations it keeps the     *)
(* first MaxRecords + 1, one more than the records there are.               *)
(***************************************************************************)
NetProxies == { p \in Proxies : p.ok }
NetDeltas == { d \in Deltas : d.ok /\ d.uuid = U1 }
NetRemovals == { r \in Removals : r[1] = U1 }
NetRenames == { r \in Renames : r[1] = U1 }

\* the changesets the budget still allows
NetChangesets(S) == SeqsUpTo(S, net.budget) \ {<<>>}

LocalCtx ==
    [gate |-> TRUE, queue |-> net.out, datablocks |-> net.store.local,
     dirty |-> net.dirty.local]
RemoteCtx ==
    [gate |-> TRUE, queue |-> net.back, datablocks |-> net.store.remote,
     dirty |-> net.dirty.remote]

\* the transport hands the payload of a command to the applier of its tag
Dispatch(ctx, command) ==
    IF command.type = BLENDER_DATA_CREATE THEN build_data_create(ctx, command.data)
    ELSE IF command.type = BLENDER_DATA_UPDATE THEN build_data_update(ctx, command.data)
    ELSE IF command.type = BLENDER_DATA_REMOVE THEN build_data_remove(ctx, command.data)
    ELSE build_data_rename(ctx, command.data)

NetInit ==
    /\ gate = TRUE
    /\ queue = <<>>
    /\ datablocks = <<>>
    /\ dirty = FALSE
    /\ last = NoCall
    /\ \E remote \in {<<>>, (U1 :> [name |-> NameA, data |-> <<>>])} :
           net = NetStart(remote)

\* the local call r of a translator on changeset
NetSent(kind, changeset, r) ==
    /\ net' = [net EXCEPT !.out = r.queue,
                          !.budget = @ - Len(changeset),
                          !.sentlog = @ \o [i \in 1..Len(changeset) |->
                                               <<kind, changeset[i]>>]]
    /\ UNCHANGED <<gate, queue, datablocks, dirty, last>>

NetSendCreations ==
    \E proxies \in NetChangesets(NetProxies) :
        NetSent("create", proxies, send_data_creations(LocalCtx, proxies))

NetSendUpdates ==
    \E updates \in NetChangesets(NetDeltas) :
        NetSent("update", updates, send_data_updates(LocalCtx, updates))

NetSendRemovals ==
    \E removals \in NetChangesets(NetRemovals) :
        NetSent("remove", removals, send_data_removals(LocalCtx, removals))

NetSendRenames ==
    \E renames \in NetChangesets(NetRenames) :
        NetSent("rename", renames, send_data_renames(LocalCtx, renames))

\* the transport delivers the oldest command of the local peer to the remote
DeliverRemote ==
    /\ net.out # <<>>
    /\ LET r == Dispatch(RemoteCtx, Head(net.out)) IN
       net' = [net EXCEPT !.out = Tail(@),
                          !.back = r.queue,
                          !.store.remote = r.datablocks,
                          !.dirty.remote = r.dirty,
                          !.applied = PySlice(@ \o r.calls, 0, MaxRecords + 1)]
    /\ UNCHANGED <<gate, queue, datablocks, dirty, last>>

\* the transport delivers the oldest command of the remote peer to the local
DeliverLocal ==
    /\ net.back # <<>>
    /\ LET r == Dispatch(LocalCtx, Head(net.back)) IN
       net' = [net EXCEPT !.back = Tail(@),
                          !.out = r.queue,
                          !.store.local = r.datablocks,
                          !.dirty.local = r.dirty]
    /\ UNCHANGED <<gate, queue, datablocks, dirty, last>>

NetNext ==
    \/ NetSendCreations
    \/ NetSendUpdates
    \/ NetSendRemovals
    \/ NetSendRenames
    \/ DeliverRemote
    \/ DeliverLocal

(***************************************************************************)
(* The transport delivers every command it holds: weak fairness of the two  *)
(* deliveries.  WF_vars(A) is []<>~ENABLED <<A>>_vars \/ []<><<A>>_vars,    *)
(* and a delivery is enabled exactly when its queue holds a command (it has *)
(* no other guard, and it shortens that queue), so ENABLED is written out   *)
(* as that condition.                                                       *)
(***************************************************************************)
DeliveryFairness ==
    /\ []<>(net.out = <<>>) \/ []<><<DeliverRemote>>_vars
    /\ []<>(net.back = <<>>) \/ []<><<DeliverLocal>>_vars

NetSpec == NetInit /\ [][NetNext]_vars /\ DeliveryFairness

(***************************************************************************)
(* Properties.                                                              *)
(***************************************************************************)
SendOps ==
    {"send_data_creations", "send_data_updates", "send_data_removals",
     "send_data_renames"}
BuildOps ==
    {"build_data_create", "build_data_update", "build_data_remove",
     "build_data_rename"}

\* the call in progress is one of ops and found the gate enabled
Called(ops) == last.op \in ops /\ last.pre.gate

\* the record a CREATE or UPDATE command carries
Unwrap(command) == Codec_decode(decode_string(command.data, 0).value).value

\* the first n strings of a payload
RECURSIVE DecodeStrings(_, _, _)
DecodeStrings(data, index, n) ==
    IF n = 0 THEN <<>>
    ELSE LET d == decode_string(data, index) IN
         <<d.value>> \o DecodeStrings(data, d.index, n - 1)

\* the result the store gave the call of last.calls, found by asking it again
StoreResult(db, call) ==
    IF call.op = "create_datablock" THEN create_datablock(db, call.args[1])
    ELSE IF call.op = "update_datablock" THEN update_datablock(db, call.args[1])
    ELSE IF call.op = "remove_datablock" THEN remove_datablock(db, call.args[1])
    ELSE rename_datablock(db, call.args[1], call.args[2])

StoreFailed == Len(last.calls) = 1 /\ ~StoreResult(last.pre.datablocks, last.calls[1]).ok
StoreSucceeded == Len(last.calls) = 1 /\ StoreResult(last.pre.datablocks, last.calls[1]).ok

\* a peer that receives what this one sends: this store, with the gate enabled
Receiver == [Ctx EXCEPT !.gate = TRUE]

\* C1: with the gate enabled, build_data_create and build_data_update return
\* normally for every payload, malformed ones included, and a payload that
\* reaches no store operation leaves the store as it was.
C1_MalformedPayloadIsolation ==
    Called({"build_data_create", "build_data_update"}) =>
        /\ last.outcome = Returned
        /\ last.calls = <<>> => datablocks = last.pre.datablocks

\* C2: with the gate disabled, each of the eight operations returns without
\* adding a command, calling a store operation or marking the store dirty.
C2_GateNoOp ==
    (~Idle /\ ~last.pre.gate) =>
        /\ last.outcome = Returned
        /\ last.sent = <<>> /\ queue = last.pre.queue
        /\ last.calls = <<>> /\ datablocks = last.pre.datablocks
        /\ last.dirtyCalls = 0 /\ dirty = last.pre.dirty

\* a RENAME that would have been applied arrives while the gate is disabled
C2_Witness ==
    /\ last.op = "build_data_rename" /\ ~last.pre.gate
    /\ last.buffer \in RenamePayloads
    /\ decode_string(last.buffer, 0).value \in DOMAIN datablocks

\* C3: send_data_creations and send_data_updates add one command for each
\* record that encodes, in the order of the changeset, skip each record that
\* fails to encode, and return normally.
C3_EncodeFaultIsolation ==
    Called({"send_data_creations", "send_data_updates"}) =>
        /\ last.outcome = Returned
        /\ queue = last.pre.queue \o last.sent
        /\ [i \in 1..Len(last.sent) |-> Unwrap(last.sent[i])]
               = SelectSeq(last.changeset, LAMBDA r : Codec_encode(r).ok)

\* the second of three updates fails to encode
C3_Witness ==
    /\ Called({"send_data_updates"})
    /\ Len(last.changeset) = 3
    /\ last.changeset[1].ok /\ ~last.changeset[2].ok /\ last.changeset[3].ok
    /\ last.changeset[1] # last.changeset[3]
    /\ Len(last.sent) = 2

\* the record command carries, read back from its payload
Carried(op, command) ==
    IF op \in {"send_data_creations", "send_data_updates"} THEN Unwrap(command)
    ELSE IF op = "send_data_removals" THEN DecodeStrings(command.data, 0, 2)
    ELSE DecodeStrings(command.data, 0, 3)

AllEncode ==
    last.op \in {"send_data_creations", "send_data_updates"} =>
        \A i \in 1..Len(last.changeset) : Codec_encode(last.changeset[i]).ok

\* C4: for a changeset of n records that all encode, each send operation adds
\* exactly n commands, the i-th carrying the i-th record.
C4_OrderPreserved ==
    (Called(SendOps) /\ AllEncode) =>
        /\ Len(last.sent) = Len(last.changeset)
        /\ queue = last.pre.queue \o last.sent
        /\ \A i \in 1..Len(last.changeset) :
               Carried(last.op, last.sent[i]) = last.changeset[i]

\* three removals, the first and the last of different datablocks
C4_Witness ==
    /\ Called({"send_data_removals"})
    /\ Len(last.changeset) = 3
    /\ last.changeset[1] # last.changeset[3]
    /\ Len(last.sent) = 3

\* create_datablock returned a rename changeset to the call in progress
Collision ==
    /\ Called({"build_data_create"})
    /\ StoreSucceeded
    /\ StoreResult(last.pre.datablocks, last.calls[1]).renames # <<>>

\* C5: a CREATE whose create_datablock reports a name collision adds exactly
\* one command, a RENAME carrying the uuid and the corrected name the store
\* returned, and no CREATE or UPDATE.
C5_SecondaryRename ==
    Collision =>
        LET rename == StoreResult(last.pre.datablocks, last.calls[1]).renames[1] IN
        /\ Len(last.sent) = 1
        /\ queue = last.pre.queue \o last.sent
        /\ last.sent[1].type = BLENDER_DATA_RENAME
        /\ DecodeStrings(last.sent[1].data, 0, 2) = <<rename[1], rename[2]>>
        /\ datablocks[rename[1]].name = rename[2]

\* the second datablock of a name was created
C5_Witness ==
    /\ Collision
    /\ \E u \in DOMAIN datablocks : datablocks[u].name = NameA \o ConflictSuffix

\* C6: the command of a removal (uuid, debug_info) has the payload
\* encode_string(uuid) + encode_string(debug_info), and build_data_remove
\* recovers uuid and debug_info from it and calls remove_datablock(uuid) once.
C6_RemovalRoundTrip ==
    Called({"send_data_removals"}) =>
        /\ Len(last.sent) = Len(last.changeset)
        /\ \A i \in 1..Len(last.changeset) :
               LET uuid == last.changeset[i][1]
                   debug_info == last.changeset[i][2]
                   received == build_data_remove(Receiver, last.sent[i].data)
               IN /\ last.sent[i].data = encode_string(uuid) \o encode_string(debug_info)
                  /\ received.calls = <<StoreCall("remove_datablock", <<uuid>>)>>
                  /\ received.log = <<Info("build_data_remove", <<uuid, debug_info>>)>>

\* a removal with a label outside ASCII, of a datablock the receiver holds
C6_Witness ==
    /\ Called({"send_data_removals"})
    /\ \E i \in 1..Len(last.changeset) : last.changeset[i] = <<U2, DebugE>>
    /\ U2 \in DOMAIN datablocks

\* C7: with a codec whose decode inverts its encode, the payload of the
\* command of a creation (an update) that encodes makes build_data_create
\* (build_data_update) call create_datablock (update_datablock) exactly once,
\* with a record equal to the one sent.
C7_CodecRoundTrip ==
    Called({"send_data_creations", "send_data_updates"}) =>
        LET encodable == SelectSeq(last.changeset, LAMBDA r : Codec_encode(r).ok) IN
        /\ Len(last.sent) = Len(encodable)
        /\ \A i \in 1..Len(encodable) :
               IF last.op = "send_data_creations"
               THEN build_data_create(Receiver, last.sent[i].data).calls
                        = <<StoreCall("create_datablock", <<encodable[i]>>)>>
               ELSE build_data_update(Receiver, last.sent[i].data).calls
                        = <<StoreCall("update_datablock", <<encodable[i]>>)>>

\* a creation was sent
C7_Witness ==
    /\ Called({"send_data_creations"})
    /\ Len(last.sent) >= 1

\* C8: when create_datablock or update_datablock raises, build_data_create
\* and build_data_update return normally, add no command, and leave the queue
\* and the store as they were.
C8_ApplicationErrorContained ==
    (Called({"build_data_create", "build_data_update"}) /\ StoreFailed) =>
        /\ last.outcome = Returned
        /\ last.sent = <<>> /\ queue = last.pre.queue
        /\ datablocks = last.pre.datablocks

\* an update of a datablock the store does not hold
C8_Witness ==
    /\ Called({"build_data_update"})
    /\ StoreFailed
    /\ last.calls[1].op = "update_datablock"
    /\ last.calls[1].args[1].cls = Delta

\* C9: with the gate enabled, every inbound message whose decoding and store
\* operation both succeed has the store marked dirty during its call.
C9_DirtyAfterSuccess ==
    (Called(BuildOps) /\ StoreSucceeded) =>
        /\ last.dirtyCalls >= 1
        /\ dirty

\* a removal was applied while the flag was down
C9_Witness ==
    /\ Called({"build_data_remove"})
    /\ StoreSucceeded
    /\ ~last.pre.dirty

\* C10: when remove_datablock or rename_datablock raises, the exception
\* leaves build_data_remove or build_data_rename and the store is not marked
\* dirty for that message.
C10_RemovalRenameUncontained ==
    (Called({"build_data_remove", "build_data_rename"}) /\ StoreFailed) =>
        /\ last.outcome = Raised
        /\ last.exc = "StoreError"
        /\ last.dirtyCalls = 0 /\ dirty = last.pre.dirty

\* a rename of a datablock the store does not hold
C10_Witness ==
    /\ Called({"build_data_rename"})
    /\ StoreFailed
    /\ last.buffer \in RenamePayloads
    /\ ~last.pre.dirty

Tags ==
    {BLENDER_DATA_CREATE, BLENDER_DATA_UPDATE, BLENDER_DATA_REMOVE, BLENDER_DATA_RENAME}

\* the tag of the commands an operation adds; build_data_create adds through
\* send_data_renames
TagOf(op) ==
    IF op = "send_data_creations" THEN BLENDER_DATA_CREATE
    ELSE IF op = "send_data_updates" THEN BLENDER_DATA_UPDATE
    ELSE IF op = "send_data_removals" THEN BLENDER_DATA_REMOVE
    ELSE BLENDER_DATA_RENAME

\* C11: every command on the queue has the reserved field 0 and one of the
\* four tags, and every command an operation added has the tag of that
\* operation, the RENAME commands added through build_data_create included.
C11_MessageTagging ==
    /\ \A i \in 1..Len(queue) : queue[i].id = 0 /\ queue[i].type \in Tags
    /\ \A i \in 1..Len(last.sent) :
           last.sent[i].id = 0 /\ last.sent[i].type = TagOf(last.op)

\* creations are on the queue
C11_Witness ==
    /\ Called({"send_data_creations"})
    /\ Len(last.sent) >= 2
    /\ queue = last.pre.queue \o last.sent

\* C13: the command of a rename (uuid, new_name, debug_info) has the payload
\* encode_string(uuid) + encode_string(new_name) + encode_string(debug_info),
\* and build_data_rename calls rename_datablock(uuid, new_name) once for it.
C13_RenameRoundTrip ==
    Called({"send_data_renames"}) =>
        /\ Len(last.sent) = Len(last.changeset)
        /\ \A i \in 1..Len(last.changeset) :
               LET uuid == last.changeset[i][1]
                   new_name == last.changeset[i][2]
                   debug_info == last.changeset[i][3]
                   received == build_data_rename(Receiver, last.sent[i].data)
               IN /\ last.sent[i].data
                         = encode_string(uuid) \o encode_string(new_name)
                               \o encode_string(debug_info)
                  /\ received.calls
                         = <<StoreCall("rename_datablock", <<uuid, new_name>>)>>

\* a rename with a label outside ASCII, of a datablock the receiver holds
C13_Witness ==
    /\ Called({"send_data_renames"})
    /\ \E i \in 1..Len(last.changeset) : last.changeset[i] = <<U2, NameB, DebugE>>
    /\ U2 \in DOMAIN datablocks

\* the text build_data_create and build_data_update hand to the codec
FramedText == decode_string(last.buffer, 0).value
DecodeSucceeded ==
    decode_string(last.buffer, 0).ok /\ Codec_decode(FramedText).ok

\* the entries of the log made with the given format
Logged(fmt) == { i \in 1..Len(last.log) : last.log[i][2] = fmt }

\* C14: when decoding or applying a Creation or Update fails, the handler
\* logs the first up to 200 and the last up to 200 elements of the payload,
\* so both excerpts are non-empty for a non-empty payload.
C14_FailureForensics ==
    (Called({"build_data_create", "build_data_update"})
        /\ (StoreFailed \/ ~DecodeSucceeded)) =>
        /\ \E i \in Logged("head") :
               last.log[i][3] = <<PySlice(FramedText, 0, LogExcerpt)>>
        /\ \E i \in Logged("tail") :
               last.log[i][3]
                   = <<SubSeq(FramedText, Max(Len(FramedText) - LogExcerpt, 0) + 1,
                              Len(FramedText))>>

\* C15: build_data_create and build_data_update call set_dirty exactly when
\* the codec decoded the payload: also when the store operation then raises,
\* and not when decoding raised.
C15_DirtyIffDecoded ==
    Called({"build_data_create", "build_data_update"}) =>
        /\ last.dirtyCalls >= 1 <=> DecodeSucceeded
        /\ last.dirtyCalls >= 1 => dirty
        /\ last.dirtyCalls = 0 => dirty = last.pre.dirty

\* an update the store rejected raised the flag
C15_Witness ==
    /\ Called({"build_data_update"})
    /\ StoreFailed
    /\ ~last.pre.dirty /\ dirty

\* C16: build_data_update, build_data_remove and build_data_rename add no
\* command; build_data_create adds commands only when create_datablock
\* returned a rename changeset, and then one RENAME for each entry, in order.
C16_InboundQueueFrame ==
    last.op \in BuildOps =>
        /\ queue = last.pre.queue \o last.sent
        /\ IF Collision
           THEN LET renames == StoreResult(last.pre.datablocks, last.calls[1]).renames IN
                /\ Len(last.sent) = Len(renames)
                /\ \A i \in 1..Len(renames) :
                       /\ last.sent[i].type = BLENDER_DATA_RENAME
                       /\ DecodeStrings(last.sent[i].data, 0, 3) = renames[i]
           ELSE last.sent = <<>>

\* a collision put its rename on the queue
C16_Witness ==
    /\ Collision
    /\ Len(last.sent) = 1
    /\ DecodeStrings(last.sent[1].data, 0, 3)[3] = ConflictDebug

\* the store operation the remote peer makes for a record of net.sentlog
ExpectedCall(entry) ==
    IF entry[1] = "create" THEN StoreCall("create_datablock", <<entry[2]>>)
    ELSE IF entry[1] = "update" THEN StoreCall("update_datablock", <<entry[2]>>)
    ELSE IF entry[1] = "remove" THEN StoreCall("remove_datablock", <<entry[2][1]>>)
    ELSE StoreCall("rename_datablock", <<entry[2][1], entry[2][2]>>)

\* the records of net.sentlog the transport has delivered
Delivered == Len(net.sentlog) - Len(net.out)

(***************************************************************************)
(* C12: with the gate enabled on both peers and no fault, the remote peer   *)
(* applies the records the local peer sent in the order in which they were  *)
(* sent, within a changeset and across changesets: its store operations     *)
(* are those of the delivered records, one for one and in order.            *)
(***************************************************************************)
C12_EndToEndOrder ==
    /\ Delivered >= 0
    /\ Len(net.applied) = Delivered
    /\ \A i \in 1..Delivered : net.applied[i] = ExpectedCall(net.sentlog[i])

C12_Witness ==
    /\ net.out = <<>>
    /\ Len(net.applied) = MaxRecords
    /\ \E i \in 1..Len(net.sentlog) - 1 :
           /\ net.sentlog[i][1] = "create"
           /\ net.sentlog[i + 1][1] = "create"
           /\ net.sentlog[i] # net.sentlog[i + 1]
    /\ \E i \in 1..Len(net.sentlog) : net.sentlog[i][1] # "create"

(***************************************************************************)
(* C17: the renames sent back for name collisions do not feed each other.   *)
(* Once the local peer has sent its last record, the transport empties      *)
(* both queues and they stay empty: applying a rename sent for a collision  *)
(* produces no further command.                                             *)
(***************************************************************************)
C17_RenameFeedbackTerminates ==
    <>[](net.out = <<>> /\ net.back = <<>>)

\* the local peer has applied the rename the remote peer sent for a collision
C17_Witness ==
    /\ net.out = <<>>
    /\ net.back = <<>>
    /\ net.budget = 0
    /\ U2 \in DOMAIN net.store.remote
    /\ net.store.local[U2].name = NameA \o ConflictSuffix
    /\ net.store.remote[U2].name = NameA \o ConflictSuffix
    /\ net.dirty.local

====
